---- MODULE Spec2Model ----
(***************************************************************************)
(* DistributedBucketSampler of data_utils.py: length bucketing by binary   *)
(* search over a boundary list, pruning of empty buckets, padding of each  *)
(* bucket to a multiple of num_replicas * batch_size, strided sharding by  *)
(* rank and batching, with an epoch-seeded generator for the shuffles.     *)
(*                                                                         *)
(* Python lists are sequences; Python's 0-based indices are kept as values *)
(* (sample indices, bucket indices, positions) and translated by At.       *)
(***************************************************************************)
EXTENDS Integers, Sequences, FiniteSets, TLC

\* Bounds of the model.
MaxBoundary == 3      \* boundary values range over 0..MaxBoundary
MaxSamples == 3       \* a dataset holds at most MaxSamples samples
MaxUnsorted == 2      \* boundary lists that are not strictly increasing have at most this many entries
MaxBatch == 2         \* batch_size ranges over 1..MaxBatch
MaxReplicas == 2      \* num_replicas ranges over 1..MaxReplicas
MaxEpoch == 1         \* set_epoch is called with 0..MaxEpoch

VARIABLES
    boundaries,              \* the list object the caller passed; self.boundaries is the same object
    supplied,                \* value of the boundaries argument on entry to __init__
    phase,                   \* "Unconstructed", "Configured", "EpochReady", or the exception raised
    lengths,                 \* self.lengths
    batch_size,              \* self.batch_size
    num_replicas,            \* self.num_replicas
    rank,                    \* self.rank
    shuffle,                 \* self.shuffle
    epoch,                   \* self.epoch
    idx_bucket,              \* the value _bisect returned for each sample in _create_buckets
    buckets,                 \* self.buckets
    num_samples_per_bucket,  \* self.num_samples_per_bucket
    total_size,              \* self.total_size
    num_samples,             \* self.num_samples
    batches,                 \* self.batches
    ids_padded,              \* per bucket, ids_bucket after the padding line of the last __iter__
    batches_epoch,           \* the epoch the last __iter__ ran for
    repeated,                \* whether the last __iter__ ran for an epoch it had run for before
    built,                   \* <<buckets, boundaries, num_samples_per_bucket>> as __init__ left them
    history                  \* per epoch, the first batch list __iter__ returned for it (<<>>: none yet)

vars == <<boundaries, supplied, phase, lengths, batch_size, num_replicas, rank, shuffle, epoch,
          idx_bucket, buckets, num_samples_per_bucket, total_size, num_samples, batches,
          ids_padded, batches_epoch, repeated, built, history>>

----------------------------------------------------------------------------
\* Python list helpers.

\* s[i] for a 0-based index i
At(s, i) == s[i + 1]

\* whether s[i] is a valid read (no IndexError); negative indices never arise here
InRange(s, i) == 0 <= i /\ i < Len(s)

\* list(range(n))
range(n) == [i \in 1..n |-> i - 1]

\* s.pop(i) for a 0-based index i: the list without that entry
pop(s, i) == SubSeq(s, 1, i) \o SubSeq(s, i + 2, Len(s))

\* s * n: n copies of s one after the other
RECURSIVE times(_, _)
times(s, n) == IF n <= 0 THEN <<>> ELSE s \o times(s, n - 1)

\* s[:n] for 0 <= n
prefix(s, n) == SubSeq(s, 1, IF n < Len(s) THEN n ELSE Len(s))

\* s[start::step]
stride(s, start, step) ==
    LET n == IF Len(s) > start THEN (Len(s) - start + step - 1) \div step ELSE 0
    IN  [p \in 1..n |-> At(s, start + (p - 1) * step)]

\* sum(s)
RECURSIVE sum(_)
sum(s) == IF Len(s) = 0 THEN 0 ELSE s[1] + sum(Tail(s))

\* all sequences over S with at most n entries
RECURSIVE SeqsUpTo(_, _)
SeqsUpTo(S, n) ==
    IF n = 0 THEN {<<>>}
    ELSE LET shorter == SeqsUpTo(S, n - 1)
         IN  shorter \cup {Append(s, x) : s \in {t \in shorter : Len(t) = n - 1}, x \in S}

StrictlyIncreasing(b) == \A i \in 1..(Len(b) - 1) : b[i] < b[i + 1]

----------------------------------------------------------------------------
\* _bisect

\* the outcome of a read outside the list (IndexError), kept apart from -1
IndexError == -2

RECURSIVE _bisect(_, _, _, _)

\* _bisect with the interval test closed on the left and open on the right
_bisect_closed_left(b, x, lo, hi) ==
    IF hi > lo
    THEN LET mid == (hi + lo) \div 2
         IN  IF ~InRange(b, mid) \/ (At(b, mid) <= x /\ ~InRange(b, mid + 1)) THEN IndexError
             ELSE IF At(b, mid) <= x /\ x < At(b, mid + 1) THEN mid
             ELSE IF x < At(b, mid) THEN _bisect(b, x, lo, mid)
             ELSE _bisect(b, x, mid + 1, hi)
    ELSE -1

_bisect(b, x, lo, hi) ==
    IF hi > lo
    THEN LET mid == (hi + lo) \div 2
         IN  IF ~InRange(b, mid) \/ (At(b, mid) < x /\ ~InRange(b, mid + 1)) THEN IndexError
             ELSE IF At(b, mid) < x /\ x <= At(b, mid + 1) THEN mid
             ELSE IF x <= At(b, mid) THEN _bisect(b, x, lo, mid)
             ELSE _bisect(b, x, mid + 1, hi)
    ELSE -1

\* the call with hi = len(self.boundaries), one past the last boundary index
bisect_call_past_end(b, x) == _bisect(b, x, 0, Len(b))

\* _bisect(length) as _create_buckets calls it: lo = 0, hi = len(self.boundaries) - 1
bisect_call(b, x) == _bisect(b, x, 0, Len(b) - 1)

----------------------------------------------------------------------------
\* _create_buckets

\* the idx_bucket computed for every sample, in dataset order
classify(b, ls) == [i \in 1..Len(ls) |-> bisect_call(b, ls[i])]

\* bucket j after the first n samples went through "buckets[idx_bucket].append(i)"
RECURSIVE appended(_, _, _)
appended(idx, j, n) ==
    IF n = 0 THEN <<>>
    ELSE IF idx[n] = j THEN Append(appended(idx, j, n - 1), n - 1)
         ELSE appended(idx, j, n - 1)

\* the classification loop without "if idx_bucket != -1": buckets[-1] is the last bucket
filled_unguarded(b, idx) ==
    LET nb == IF Len(b) >= 1 THEN Len(b) - 1 ELSE 0
    IN  [j \in 1..nb |->
            appended([i \in 1..Len(idx) |-> IF idx[i] = -1 THEN nb - 1 ELSE idx[i]], j - 1, Len(idx))]

\* the buckets after the classification loop: len(boundaries) - 1 of them
filled(b, idx) ==
    [j \in 1..(IF Len(b) >= 1 THEN Len(b) - 1 ELSE 0) |-> appended(idx, j - 1, Len(idx))]

\* the loop "for i in range(len(buckets) - 1, 0, -1)" from index i downwards (index 0
\* is not visited): an empty bucket i is popped together with boundary i + 1
RECURSIVE prune(_, _, _)
prune(bks, b, i) ==
    IF i <= 0 THEN <<bks, b>>
    ELSE IF Len(At(bks, i)) = 0 THEN prune(pop(bks, i), pop(b, i + 1), i - 1)
         ELSE prune(bks, b, i - 1)

\* a bucket left at its own size
padded_count_unpadded(len_bucket, R, B) == len_bucket

\* len_bucket + rem of one bucket
padded_count(len_bucket, R, B) ==
    LET total_batch_size == R * B
        rem == (total_batch_size - (len_bucket % total_batch_size)) % total_batch_size
    IN  len_bucket + rem

\* what _create_buckets computes from the boundary list b and the lengths ls
create_buckets(b, ls, R, B) ==
    LET idx == classify(b, ls)
        pruned == prune(filled(b, idx), b, Len(filled(b, idx)) - 1)
    IN  [idx |-> idx,
         raised |-> \E i \in 1..Len(idx) : idx[i] = IndexError,
         buckets |-> pruned[1],
         boundaries |-> pruned[2],
         num_samples_per_bucket |->
             [i \in 1..Len(pruned[1]) |-> padded_count(Len(pruned[1][i]), R, B)]]

----------------------------------------------------------------------------
\* torch.Generator, manual_seed and randperm: a deterministic generator whose
\* state is a small integer, advanced once per element drawn.

manual_seed(e) == e % 16

advance(g) == (7 * g + 5) % 16

\* s with x inserted before 0-based position p
insert_at(s, p, x) == SubSeq(s, 1, p) \o <<x>> \o SubSeq(s, p + 1, Len(s))

\* torch.randperm(n, generator=g): <<a permutation of 0..n-1, the generator afterwards>>
RECURSIVE randperm(_, _)
randperm(n, g) ==
    IF n = 0 THEN <<<<>>, g>>
    ELSE LET r == randperm(n - 1, g)
             g1 == advance(r[2])
         IN  <<insert_at(r[1], g1 % n, n - 1), g1>>

----------------------------------------------------------------------------
\* __iter__

\* "for bucket in self.buckets: indices.append(torch.randperm(len(bucket), generator=g).tolist())":
\* <<indices, the generator afterwards>>
RECURSIVE shuffled_indices(_, _)
shuffled_indices(bks, g) ==
    IF Len(bks) = 0 THEN <<<<>>, g>>
    ELSE LET first == randperm(Len(Head(bks)), g)
             rest == shuffled_indices(Tail(bks), first[2])
         IN  <<<<first[1]>> \o rest[1], rest[2]>>

\* indices and the generator after the first loop of __iter__
draw_indices(bks, shf, ep) ==
    IF shf THEN shuffled_indices(bks, manual_seed(ep))
    ELSE <<[i \in 1..Len(bks) |-> range(Len(bks[i]))], manual_seed(ep)>>

\* padding by one slice only: ids_bucket + ids_bucket[:rem]
padded_ids_one_slice(ids_bucket, len_bucket, num_samples_bucket) ==
    ids_bucket \o prefix(ids_bucket, num_samples_bucket - len_bucket)

\* ids_bucket + ids_bucket * (rem // len_bucket) + ids_bucket[:(rem % len_bucket)]
padded_ids(ids_bucket, len_bucket, num_samples_bucket) ==
    LET rem == num_samples_bucket - len_bucket
    IN  ids_bucket \o times(ids_bucket, rem \div len_bucket) \o prefix(ids_bucket, rem % len_bucket)

\* a contiguous slice per rank: ids_bucket[rank * n : (rank + 1) * n] with n = len // num_replicas
subsample_contiguous(ids_bucket, rk, R) ==
    SubSeq(ids_bucket, rk * (Len(ids_bucket) \div R) + 1, (rk + 1) * (Len(ids_bucket) \div R))

\* ids_bucket[self.rank::self.num_replicas]
subsample(ids_bucket, rk, R) == stride(ids_bucket, rk, R)

\* per bucket, ids_bucket after the padding line (an empty bucket is skipped: no list)
padded_lists(bks, nspb, shf, ep) ==
    LET indices == draw_indices(bks, shf, ep)[1]
    IN  [i \in 1..Len(bks) |->
            IF Len(bks[i]) = 0 THEN <<>> ELSE padded_ids(indices[i], Len(bks[i]), nspb[i])]

\* the batches of one non-empty bucket, from its padded ids_bucket
bucket_batches(bucket, ids_bucket, B, R, rk) ==
    LET ids == subsample(ids_bucket, rk, R)
    IN  [j \in 1..(Len(ids) \div B) |->
            LET chunk == SubSeq(ids, (j - 1) * B + 1, IF j * B < Len(ids) THEN j * B ELSE Len(ids))
            IN  [q \in 1..Len(chunk) |-> At(bucket, chunk[q])]]

\* the loop "for i in range(len(self.buckets))" from bucket i on: empty buckets are skipped
RECURSIVE batching(_, _, _, _, _, _)
batching(bks, padded, B, R, rk, i) ==
    IF i > Len(bks) THEN <<>>
    ELSE (IF Len(bks[i]) = 0 THEN <<>> ELSE bucket_batches(bks[i], padded[i], B, R, rk))
         \o batching(bks, padded, B, R, rk, i + 1)

\* bs as one list of sample indices
RECURSIVE flatten(_)
flatten(bs) == IF Len(bs) = 0 THEN <<>> ELSE Head(bs) \o flatten(Tail(bs))

\* the final shuffle applied to the samples of all batches instead of to the batch order
iter_batches_samples_shuffled(bks, nspb, B, R, rk, shf, ep) ==
    LET bs == batching(bks, padded_lists(bks, nspb, shf, ep), B, R, rk, 1)
        flat == flatten(bs)
    IN  IF shf
        THEN LET ids == randperm(Len(flat), draw_indices(bks, shf, ep)[2])[1]
             IN  [k \in 1..Len(bs) |-> [q \in 1..B |-> At(flat, ids[(k - 1) * B + q])]]
        ELSE bs

\* the batch list __iter__ stores in self.batches
iter_batches(bks, nspb, B, R, rk, shf, ep) ==
    LET bs == batching(bks, padded_lists(bks, nspb, shf, ep), B, R, rk, 1)
    IN  IF shf
        THEN LET batch_ids == randperm(Len(bs), draw_indices(bks, shf, ep)[2])[1]
             IN  [k \in 1..Len(bs) |-> At(bs, batch_ids[k])]
        ELSE bs

----------------------------------------------------------------------------
\* The state machine.

\* boundary lists a caller can pass: every strictly increasing list over
\* 0..MaxBoundary (the empty and the one-entry list included) and every short
\* list of any order
BoundaryLists ==
    {b \in SeqsUpTo(0..MaxBoundary, MaxBoundary + 1) : StrictlyIncreasing(b)}
        \cup SeqsUpTo(0..MaxBoundary, MaxUnsorted)

\* dataset.lengths: lengths below, inside and above every boundary
Datasets == SeqsUpTo(0..(MaxBoundary + 1), MaxSamples)

Init ==
    /\ boundaries \in BoundaryLists
    /\ supplied = boundaries
    /\ phase = "Unconstructed"
    /\ lengths = <<>>
    /\ batch_size = 1
    /\ num_replicas = 1
    /\ rank = 0
    /\ shuffle = FALSE
    /\ epoch = 0
    /\ idx_bucket = <<>>
    /\ buckets = <<>>
    /\ num_samples_per_bucket = <<>>
    /\ total_size = 0
    /\ num_samples = 0
    /\ batches = <<>>
    /\ ids_padded = <<>>
    /\ batches_epoch = 0
    /\ repeated = FALSE
    /\ built = <<>>
    /\ history = [e \in 0..MaxEpoch |-> <<>>]

\* DistributedBucketSampler(dataset, batch_size, boundaries, num_replicas, rank, shuffle)
Construct ==
    /\ phase = "Unconstructed"
    /\ \E ls \in Datasets, B \in 1..MaxBatch, R \in 1..MaxReplicas, shf \in BOOLEAN :
       \E rk \in 0..(R - 1) :
         LET made == create_buckets(boundaries, ls, R, B)
         IN  /\ supplied' = boundaries
             /\ lengths' = ls
             /\ batch_size' = B
             /\ num_replicas' = R
             /\ rank' = rk
             /\ shuffle' = shf
             /\ epoch' = 0
             /\ idx_bucket' = made.idx
             /\ IF made.raised
                THEN /\ phase' = "IndexError"
                     /\ UNCHANGED <<boundaries, buckets, num_samples_per_bucket, total_size,
                                    num_samples, built>>
                ELSE /\ phase' = "Configured"
                     /\ boundaries' = made.boundaries
                     /\ buckets' = made.buckets
                     /\ num_samples_per_bucket' = made.num_samples_per_bucket
                     /\ total_size' = sum(made.num_samples_per_bucket)
                     /\ num_samples' = sum(made.num_samples_per_bucket) \div R
                     /\ built' = <<made.buckets, made.boundaries, made.num_samples_per_bucket>>
             /\ UNCHANGED <<batches, ids_padded, batches_epoch, repeated, history>>

\* set_epoch(e), inherited from DistributedSampler
SetEpoch ==
    /\ phase \in {"Configured", "EpochReady"}
    /\ \E e \in 0..MaxEpoch :
         /\ e # epoch
         /\ epoch' = e
    /\ UNCHANGED <<boundaries, supplied, phase, lengths, batch_size, num_replicas, rank, shuffle,
                   idx_bucket, buckets, num_samples_per_bucket, total_size, num_samples, batches,
                   ids_padded, batches_epoch, repeated, built, history>>

\* __iter__ that also reorders every bucket in place (each bucket reversed)
Iter_in_place ==
    /\ phase \in {"Configured", "EpochReady"}
    /\ LET bs == iter_batches(buckets, num_samples_per_bucket, batch_size, num_replicas, rank,
                              shuffle, epoch)
       IN  /\ batches' = bs
           /\ ids_padded' = padded_lists(buckets, num_samples_per_bucket, shuffle, epoch)
           /\ batches_epoch' = epoch
           /\ repeated' = (history[epoch] # <<>>)
           /\ history' = IF history[epoch] = <<>> THEN [history EXCEPT ![epoch] = <<bs>>]
                         ELSE history
           /\ phase' = IF Len(bs) * batch_size = num_samples THEN "EpochReady" ELSE "AssertionError"
    /\ buckets' = [i \in 1..Len(buckets) |->
                      [q \in 1..Len(buckets[i]) |-> buckets[i][Len(buckets[i]) + 1 - q]]]
    /\ UNCHANGED <<boundaries, supplied, lengths, batch_size, num_replicas, rank, shuffle, epoch,
                   idx_bucket, num_samples_per_bucket, total_size, num_samples, built>>

\* __iter__(): self.batches is assigned before the assertion is evaluated
Iter ==
    /\ phase \in {"Configured", "EpochReady"}
    /\ LET bs == iter_batches(buckets, num_samples_per_bucket, batch_size, num_replicas, rank,
                              shuffle, epoch)
       IN  /\ batches' = bs
           /\ ids_padded' = padded_lists(buckets, num_samples_per_bucket, shuffle, epoch)
           /\ batches_epoch' = epoch
           /\ repeated' = (history[epoch] # <<>>)
           /\ history' = IF history[epoch] = <<>> THEN [history EXCEPT ![epoch] = <<bs>>]
                         ELSE history
           /\ phase' = IF Len(bs) * batch_size = num_samples THEN "EpochReady" ELSE "AssertionError"
    /\ UNCHANGED <<boundaries, supplied, lengths, batch_size, num_replicas, rank, shuffle, epoch,
                   idx_bucket, buckets, num_samples_per_bucket, total_size, num_samples, built>>

\* __len__()
len == num_samples \div batch_size

Next == Construct \/ SetEpoch \/ Iter

Spec == Init /\ [][Next]_vars

----------------------------------------------------------------------------
\* Vocabulary of the properties.

\* a sampler exists: __init__ returned
Constructed == phase \in {"Configured", "EpochReady", "AssertionError"}

\* __iter__ has run to its last statement at least once
HasIterated == phase \in {"EpochReady", "AssertionError"}

\* length of the sample with index i
LengthOf(i) == At(lengths, i)

\* number of positions of s that hold x
Count(s, x) == Cardinality({p \in 1..Len(s) : s[p] = x})

\* sample indices of the dataset
Samples == 0..(Len(lengths) - 1)

\* the intervals (b_i, b_i+1] of the supplied boundaries, numbered from 0
Intervals == 0..(Len(supplied) - 2)

InInterval(x, i) == At(supplied, i) < x /\ x <= At(supplied, i + 1)

\* every sample falls outside (b0, bk]
AllDiscarded ==
    \A s \in Samples : \A i \in Intervals : ~InInterval(LengthOf(s), i)

\* bucket index by a linear scan of the supplied boundaries, -1 when no interval holds x
linear_scan(x) ==
    IF \E i \in Intervals : InInterval(x, i)
    THEN CHOOSE i \in Intervals : InInterval(x, i)
    ELSE -1

----------------------------------------------------------------------------
\* C1: with strictly increasing boundaries b0 < ... < bk, no batch __iter__ returns holds
\* the index of a sample whose length is <= b0 or > bk.
C1_DiscardedNeverBatched ==
    (HasIterated /\ Len(supplied) >= 1 /\ StrictlyIncreasing(supplied)) =>
        \A k \in 1..Len(batches) : \A q \in 1..Len(batches[k]) :
            /\ supplied[1] < LengthOf(batches[k][q])
            /\ LengthOf(batches[k][q]) <= supplied[Len(supplied)]

\* an iterated sampler with batches whose dataset has a sample at or below b0 and one above bk
C1_Witness ==
    /\ phase = "EpochReady"
    /\ Len(supplied) >= 3 /\ StrictlyIncreasing(supplied)
    /\ Len(batches) >= 1
    /\ \E s \in Samples : LengthOf(s) <= supplied[1]
    /\ \E s \in Samples : LengthOf(s) > supplied[Len(supplied)]

\* C2: every batch __iter__ returns takes all its sample indices from one bucket, and the
\* lengths of its samples lie in one interval (b_i, b_i+1] of the supplied boundaries.
C2_BatchFromOneBucket ==
    HasIterated =>
        \A k \in 1..Len(batches) :
            /\ \E j \in 1..Len(buckets) :
                   \A q \in 1..Len(batches[k]) : \E m \in 1..Len(buckets[j]) :
                       buckets[j][m] = batches[k][q]
            /\ \E i \in Intervals :
                   \A q \in 1..Len(batches[k]) : InInterval(LengthOf(batches[k][q]), i)

\* shuffled batches of two samples from two different buckets
C2_Witness ==
    /\ phase = "EpochReady"
    /\ shuffle
    /\ batch_size = 2
    /\ Len(buckets) >= 2
    /\ \E j1, j2 \in 1..Len(buckets) : j1 # j2 /\ Len(buckets[j1]) = 2 /\ Len(buckets[j2]) = 1
    /\ \E k \in 1..Len(batches) : batches[k][1] # batches[k][2]

\* C3: the assertion at the end of __iter__ never fails; every batch has exactly batch_size
\* elements, there are num_samples // batch_size batches (__len__), and the batch sizes sum
\* to num_samples, empty buckets included.
C3_BatchShape ==
    /\ phase # "AssertionError"
    /\ phase = "EpochReady" =>
        /\ \A k \in 1..Len(batches) : Len(batches[k]) = batch_size
        /\ Len(batches) = len
        /\ Len(flatten(batches)) = num_samples

\* an iteration over an empty first bucket and a bucket that needed padding
C3_Witness ==
    /\ phase = "EpochReady"
    /\ batch_size = 2
    /\ Len(buckets) >= 2
    /\ Len(buckets[1]) = 0
    /\ \E i \in 1..Len(buckets) :
           Len(buckets[i]) > 0 /\ num_samples_per_bucket[i] > Len(buckets[i])
    /\ Len(batches) >= 2

\* sample indices of bucket i's padded list, in list order
Tile(i) == [p \in 1..Len(ids_padded[i]) |-> At(buckets[i], ids_padded[i][p])]

\* occurrences of sample x at the positions p of the padded lists with p mod num_replicas = r
ShareOf(r, x) ==
    sum([i \in 1..Len(buckets) |->
            Cardinality({p \in 1..Len(ids_padded[i]) :
                            (p - 1) % num_replicas = r /\ Tile(i)[p] = x})])

\* the batch list of the replica with rank r for the epoch of the last __iter__, the other
\* replicas having been constructed from the same inputs
RankBatches(r) ==
    IF r = rank THEN batches
    ELSE iter_batches(buckets, num_samples_per_bucket, batch_size, num_replicas, r, shuffle,
                      batches_epoch)

\* C4: for one epoch, rank r's batches hold exactly the entries at the positions p of every
\* padded list with p mod num_replicas = r, so the ranks' batches together hold, with
\* multiplicity, exactly the padded lists.
C4_ReplicaPartition ==
    phase = "EpochReady" =>
        \A x \in Samples :
            /\ \A r \in 0..(num_replicas - 1) : Count(flatten(RankBatches(r)), x) = ShareOf(r, x)
            /\ sum([r \in 1..num_replicas |-> Count(flatten(RankBatches(r - 1)), x)])
                   = sum([i \in 1..Len(buckets) |-> Count(Tile(i), x)])

\* two replicas and a padded list in which the two halves differ from the two strides
C4_Witness ==
    /\ phase = "EpochReady"
    /\ num_replicas = 2
    /\ rank = 1
    /\ \E i \in 1..Len(buckets) :
           /\ Len(buckets[i]) = 3
           /\ Len(ids_padded[i]) = 4
    /\ Len(batches) >= 1

\* C5: an iteration for an epoch returns the batch list the first iteration for that epoch
\* returned, whatever set_epoch and __iter__ calls came between, and the buckets, boundaries
\* and padded counts stay as construction left them.
C5_Deterministic ==
    /\ HasIterated => history[batches_epoch] = <<batches>>
    /\ Constructed => built = <<buckets, boundaries, num_samples_per_bucket>>

\* a second iteration for an epoch, after an iteration for another epoch that shuffled differently
C5_Witness ==
    /\ phase = "EpochReady"
    /\ repeated
    /\ shuffle
    /\ \E e \in 0..MaxEpoch :
           /\ e # batches_epoch
           /\ history[e] # <<>>
           /\ history[e] # history[batches_epoch]
    /\ Len(batches) >= 2

\* number of intervals of the supplied boundaries that hold at least one sample
NonEmptyIntervals ==
    Cardinality({i \in Intervals : \E s \in Samples : InInterval(LengthOf(s), i)})

\* C6: after construction the number of buckets is the number of non-empty intervals, no
\* bucket is empty (the first included), and there are bucket count + 1 boundaries. Stated
\* for the inputs the specification accepts: at least 2 strictly increasing boundaries and
\* a dataset with a sample inside them.
C6_NoEmptyBucket ==
    (Constructed /\ Len(supplied) >= 2 /\ StrictlyIncreasing(supplied) /\ ~AllDiscarded) =>
        /\ Len(buckets) = NonEmptyIntervals
        /\ \A j \in 1..Len(buckets) : Len(buckets[j]) > 0
        /\ Len(boundaries) = Len(buckets) + 1

\* C7 as stated: construction fails, leaving no sampler, when the boundaries have fewer than
\* 2 entries, are not strictly increasing, or every sample is discarded.
C7_ConfigurationError ==
    (Len(supplied) < 2 \/ ~StrictlyIncreasing(supplied) \/ AllDiscarded) => ~Constructed

\* C7 amended: construction raises nothing for any boundary list; when every sample is
\* discarded (as with fewer than 2 boundaries) the sampler is built with total_size = 0 and
\* num_samples = 0, and __iter__ returns no batch.
C7_ConstructsWithoutError ==
    /\ phase # "IndexError"
    /\ (Constructed /\ AllDiscarded) =>
        /\ total_size = 0
        /\ num_samples = 0
        /\ len = 0
        /\ HasIterated => (phase = "EpochReady" /\ batches = <<>>)

\* an iterated sampler built from boundaries that are not strictly increasing
C7_Witness ==
    /\ phase = "EpochReady"
    /\ Len(supplied) = 2
    /\ ~StrictlyIncreasing(supplied)
    /\ Len(lengths) >= 2
    /\ \E s \in Samples : LengthOf(s) = supplied[1]

\* C8: construction leaves the caller's boundary list as it was supplied, so a sampler built
\* from it later, with any dataset, classifies every sample as the supplied thresholds do.
\* Stated for the inputs the specification accepts, as C6 is.
C8_BoundariesOwned ==
    (Constructed /\ Len(supplied) >= 2 /\ StrictlyIncreasing(supplied) /\ ~AllDiscarded) =>
        /\ boundaries = supplied
        /\ \A ls \in Datasets : classify(boundaries, ls) = classify(supplied, ls)

\* C9: for strictly increasing boundaries _bisect returns the index i with
\* b_i < x <= b_i+1, and -1 when x <= b0 or x > bk, as a linear scan does; it reads no
\* boundary outside the list.
C9_BisectIsLinearScan ==
    (phase # "Unconstructed" /\ StrictlyIncreasing(supplied)) =>
        /\ Len(idx_bucket) = Len(lengths)
        /\ \A s \in 1..Len(lengths) : idx_bucket[s] = linear_scan(lengths[s])

\* four boundaries and samples of length b1 (lower interval), bk (last bucket) and bk + 1 (none)
C9_Witness ==
    /\ Constructed
    /\ Len(supplied) = 4 /\ StrictlyIncreasing(supplied)
    /\ \E s \in 1..Len(lengths) : lengths[s] = supplied[2] /\ idx_bucket[s] = 0
    /\ \E s \in 1..Len(lengths) : lengths[s] = supplied[4] /\ idx_bucket[s] = 2
    /\ \E s \in 1..Len(lengths) : lengths[s] = supplied[4] + 1 /\ idx_bucket[s] = -1

\* the smallest multiple of m that is >= n, for m >= 1
SmallestMultiple(n, m) ==
    CHOOSE c \in n..(n + m) : c % m = 0 /\ \A d \in n..(c - 1) : d % m # 0

\* the permutation of bucket i that the last __iter__ drew
Permutation(i) == draw_indices(buckets, shuffle, batches_epoch)[1][i]

\* C10: the padded list of a non-empty bucket of n samples has padded count entries, the
\* padded count being the smallest multiple of num_replicas * batch_size that is >= n, and
\* its p-th entry is entry p mod n of the epoch's permutation of the bucket: the first n
\* entries are all the bucket's samples and occurrence counts differ by at most 1.
C10_PaddingTiles ==
    HasIterated =>
        \A i \in 1..Len(buckets) :
            LET n == Len(buckets[i])
            IN  n > 0 =>
                /\ Len(ids_padded[i]) = num_samples_per_bucket[i]
                /\ num_samples_per_bucket[i] = SmallestMultiple(n, num_replicas * batch_size)
                /\ {Permutation(i)[p] : p \in 1..n} = 0..(n - 1)
                /\ \A p \in 0..(Len(ids_padded[i]) - 1) :
                       At(ids_padded[i], p) = At(Permutation(i), p % n)
                /\ {ids_padded[i][p] : p \in 1..n} = 0..(n - 1)
                /\ \A x, y \in 0..(n - 1) :
                       Count(ids_padded[i], x) - Count(ids_padded[i], y) \in {-1, 0, 1}

\* a shuffled bucket of 3 samples padded to 4 by the first entry of a permutation that is not the identity
C10_Witness ==
    /\ phase = "EpochReady"
    /\ shuffle
    /\ batch_size = 2 /\ num_replicas = 2
    /\ \E i \in 1..Len(buckets) :
           Len(buckets[i]) = 3 /\ Len(ids_padded[i]) = 4 /\ ids_padded[i][1] # 0

====
